---- MODULE Spec2Model ----
\* SentinelLab collector (src/soc-api/app/main.py, models.py): the /ingest
\* handler with its ssh_bruteforce rule, PATCH /alerts/{id}/resolve, the list
\* routes and the dashboard data; and the agent that follows the auth log
\* (src/agent/sentinellab_agent.py).
\* Time is counted in minutes of the collector clock (datetime.now(timezone.utc)).
\* The handler is split where it reads the clock or talks to the database, so
\* that the clock may advance, and another call may commit, in between.
\*   Spec        one /ingest call at a time, every kind of payload
\*   SpecAlerts  one /ingest call at a time, with the calls on /alerts/{id}/...
\*   SpecAuth    one /ingest call at a time, X-Timestamp and X-Nonce varied
\*   SpecConc    two /ingest calls in flight
\*   SpecRace    two /ingest calls in flight, over a shorter time
\*   SpecFault   one /ingest call at a time, the database failing at times
\*   SpecAgent   the agent sending the log's events to the collector
\*   FairSpecAgent  the same, agent and collector never stopping
\*   SpecSustained  one /ingest call at a time, a longer attack
\*   SpecList    GET /events and GET /alerts on filled tables
\*   SpecDash    GET /dashboard/data on filled tables
\*   SpecTwin    two runs of the collector given the same calls, ts apart
EXTENDS Integers, Sequences, FiniteSets, TLC

\* ---------------------------------------------------------------- bounds
\* the clock runs from 0 to MaxTime; at most MaxEvents calls of /ingest, of
\* which at most MaxNoise carry something else than the attacker's failed login
MaxTime == 3
MaxEvents == 6
MaxNoise == 1
\* at most MaxLines lines are appended to the log, and at most MaxFailures
\* attempts of the agent fail in transport
MaxLines == 2
MaxFailures == 1
\* the race of two calls is followed for MaxRaceTime minutes
MaxRaceTime == 1
\* a sustained attack is at most MaxSustained failed logins
MaxSustained == 10
\* the two runs compared are given at most MaxTwinEvents calls
MaxTwinEvents == 5

\* ------------------------------------------------------ program constants
\* timedelta(minutes=2), main.py:69
Window == 2
\* fail_count >= 5, main.py:89
Threshold == 5
\* Field(max_length=...) of IngestEvent, main.py:36-40
HostMaxLen == 128
SrcIpMaxLen == 64
UserMaxLen == 64
MessageMaxLen == 2000

\* the verifier's settings as the specification gives them, in minutes:
\* INGEST_MAX_SKEW_SECONDS = 120 and INGEST_NONCE_TTL_SECONDS = 300
MaxSkew == 2
NonceTtl == 5

\* Python's None and an Optional value that is present
None == << >>
Some(v) == << v >>

\* ------------------------------------------------------------------ state
VARIABLES
    now,      \* the collector clock
    events,   \* table "events": rows in id order (id = index)
    alerts,   \* table "alerts": rows in id order (id = index)
    req,      \* per client connection: the call in flight, or its response
    resp,     \* response of the latest call that is not /ingest
    acked,    \* X-Nonce and time of the latest /ingest call answered 200
    log,      \* the lines appended to the auth log since the agent started
    agent,    \* the agent's loop: where it is, what it holds, what it has sent
    twin      \* a second run of the collector, given the same calls with other ts

vars == << now, events, alerts, req, resp, acked, log, agent, twin >>

\* ------------------------------------------------------------ the inputs
EventTypes == {"ssh_failed_login", "ssh_login_success", "generic"}

\* len() of the strings the clients send
StrLen(s) ==
    CASE s = "" -> 0
      [] s = "web1" -> 4
      [] s = "root" -> 4
      [] s = "10.0.0.5" -> 8
      [] s = "10.0.0.6" -> 8

\* the attacker's failed login, as the agent's parse_auth_line shapes it
Attack ==
    [ts |-> [t |-> 0, tzinfo |-> Some("UTC")], host |-> "web1",
     event_type |-> "ssh_failed_login", src_ip |-> Some("10.0.0.5"),
     user |-> Some("root"), message |-> 80]

\* other payloads that pass validation
NoisePayloads ==
    { [Attack EXCEPT !.src_ip = Some("10.0.0.6")],
      [Attack EXCEPT !.src_ip = None],
      [Attack EXCEPT !.event_type = "ssh_login_success", !.message = MessageMaxLen,
                     !.ts = [t |-> 0, tzinfo |-> None]] }

\* payloads that do not
BadPayloads ==
    { [Attack EXCEPT !.event_type = "ssh_invalid_user"],
      [Attack EXCEPT !.message = 0],
      [Attack EXCEPT !.message = MessageMaxLen + 1],
      [Attack EXCEPT !.host = ""] }

Payloads == {Attack} \cup NoisePayloads \cup BadPayloads

\* X-Nonce values, and X-Timestamp minus the collector clock in minutes
Nonces == {"n1", "n2"}
SkewOffsets == {0, -3}

Clients == {1, 2}

\* ------------------------------------------------------------ IngestEvent
\* IngestEvent with the upper bound of message forgotten
IngestEventValid_NoMessageMax(p) ==
    /\ p.ts # None
    /\ StrLen(p.host) >= 1 /\ StrLen(p.host) <= HostMaxLen
    /\ p.event_type \in EventTypes
    /\ (p.src_ip # None => StrLen(p.src_ip[1]) <= SrcIpMaxLen)
    /\ (p.user # None => StrLen(p.user[1]) <= UserMaxLen)
    /\ p.message >= 1

\* class IngestEvent(BaseModel), main.py:34-40
IngestEventValid(p) ==
    /\ p.ts # None
    /\ StrLen(p.host) >= 1 /\ StrLen(p.host) <= HostMaxLen
    /\ p.event_type \in EventTypes
    /\ (p.src_ip # None => StrLen(p.src_ip[1]) <= SrcIpMaxLen)
    /\ (p.user # None => StrLen(p.user[1]) <= UserMaxLen)
    /\ p.message >= 1 /\ p.message <= MessageMaxLen

\* main.py:50-52: a naive ts is taken as UTC
NormalizeTs(ts) ==
    IF ts.tzinfo = None THEN [ts EXCEPT !.tzinfo = Some("UTC")] ELSE ts

\* the Event row with the client's ts taken as the time of receipt
EventRow_ClientTs(p, id, clock) ==
    [id |-> id, ts |-> NormalizeTs(p.ts), host |-> p.host,
     event_type |-> p.event_type, src_ip |-> p.src_ip, user |-> p.user,
     message |-> p.message, received_at |-> p.ts.t]

\* main.py:54-62: the Event row of a validated payload
EventRow(p, id, clock) ==
    [id |-> id, ts |-> NormalizeTs(p.ts), host |-> p.host,
     event_type |-> p.event_type, src_ip |-> p.src_ip, user |-> p.user,
     message |-> p.message, received_at |-> clock]

\* Python truthiness of row.src_ip, main.py:68
Truthy(s) == s # None /\ s # Some("")

\* main.py:68
RuleApplies(row) == row.event_type = "ssh_failed_login" /\ Truthy(row.src_ip)

\* main.py:69
WindowStart(clock) == clock - Window

\* the count with the src_ip filter forgotten
FailCount_AnyIp(evs, src_ip, window_start) ==
    Cardinality({ i \in 1..Len(evs) :
        /\ evs[i].event_type = "ssh_failed_login"
        /\ evs[i].received_at >= window_start })

\* the count with the received_at filter forgotten
FailCount_NoWindow(evs, src_ip, window_start) ==
    Cardinality({ i \in 1..Len(evs) :
        /\ evs[i].event_type = "ssh_failed_login"
        /\ evs[i].src_ip = src_ip })

\* the count taking the rows of one log line (equal ts) as one
FailCount_DistinctTs(evs, src_ip, window_start) ==
    Cardinality({ evs[i].ts : i \in { j \in 1..Len(evs) :
        /\ evs[j].event_type = "ssh_failed_login"
        /\ evs[j].src_ip = src_ip
        /\ evs[j].received_at >= window_start } })

\* main.py:71-78
FailCount(evs, src_ip, window_start) ==
    Cardinality({ i \in 1..Len(evs) :
        /\ evs[i].event_type = "ssh_failed_login"
        /\ evs[i].src_ip = src_ip
        /\ evs[i].received_at >= window_start })

\* the duplicate check with the created_at filter forgotten
RecentAlert_NoWindow(als, src_ip, window_start) ==
    \E i \in 1..Len(als) :
        /\ als[i].rule = "ssh_bruteforce"
        /\ als[i].src_ip = src_ip

\* the duplicate check looking at active alerts only
RecentAlert_ActiveOnly(als, src_ip, window_start) ==
    \E i \in 1..Len(als) :
        /\ als[i].rule = "ssh_bruteforce"
        /\ als[i].src_ip = src_ip
        /\ als[i].created_at >= window_start
        /\ als[i].is_active

\* main.py:80-87
RecentAlert(als, src_ip, window_start) ==
    \E i \in 1..Len(als) :
        /\ als[i].rule = "ssh_bruteforce"
        /\ als[i].src_ip = src_ip
        /\ als[i].created_at >= window_start

\* the condition with > for >=
ShouldAlert_Above(fail_count, recent_alert) ==
    fail_count > Threshold /\ ~recent_alert

\* the condition with the duplicate check forgotten
ShouldAlert_NoDedup(fail_count, recent_alert) ==
    fail_count >= Threshold

\* main.py:89
ShouldAlert(fail_count, recent_alert) ==
    fail_count >= Threshold /\ ~recent_alert

\* main.py:90-99
AlertRow(row, id, clock, fail_count) ==
    [id |-> id, created_at |-> clock, resolved_at |-> None,
     rule |-> "ssh_bruteforce", severity |-> "high", host |-> row.host,
     src_ip |-> row.src_ip, user |-> row.user,
     message |-> [fail_count |-> fail_count, src_ip |-> row.src_ip],
     is_active |-> TRUE]

Idle(response) == [pc |-> "idle", response |-> response]

\* main.py:103
IngestOk(row) == [code |-> 200, ok |-> TRUE, event_id |-> row.id]

\* FastAPI's answer to a body that IngestEvent rejects
IngestUnprocessable == [code |-> 422]

\* -------------------------------------------------------------- counting
Inserted == Len(events)
Pending == Cardinality({ c \in Clients : req[c].pc = "received" })
NoiseCount ==
    Cardinality({ i \in 1..Len(events) : ~RuleApplies(events[i])
                                          \/ events[i].src_ip # Attack.src_ip })
    + Cardinality({ c \in Clients : req[c].pc = "received"
                                     /\ req[c].payload # Attack })

\* the second run before its first call
TwinStart == [events |-> << >>, alerts |-> << >>, req |-> Idle(None), seen |-> Idle(None)]

\* ------------------------------------------------------------------ Init
Init ==
    /\ now = 0
    /\ events = << >>
    /\ alerts = << >>
    /\ req = [c \in Clients |-> Idle(None)]
    /\ resp = None
    /\ acked = None
    /\ log = << >>
    /\ agent = [pc |-> "read", pos |-> 0, evt |-> None, conn |-> 0,
                attempts |-> << >>, acks |-> {}, failures |-> 0]
    /\ twin = TwinStart

\* ---------------------------------------------------------------- actions
\* the collector clock advances
Tick ==
    /\ now < MaxTime
    /\ now' = now + 1
    /\ UNCHANGED << events, alerts, req, resp, acked, log, agent, twin >>

\* a client posts to /ingest
IngestReceive(c, p, h) ==
    /\ req[c].pc = "idle"
    /\ Inserted + Pending < MaxEvents
    /\ (p # Attack => NoiseCount < MaxNoise)
    /\ req' = [req EXCEPT ![c] = [pc |-> "received", payload |-> p, headers |-> h]]
    /\ UNCHANGED << now, events, alerts, resp, acked, log, agent, twin >>

\* main.py:49-65: validation, then the Event row is inserted and committed
IngestInsert(c) ==
    /\ req[c].pc = "received"
    /\ IF IngestEventValid(req[c].payload)
       THEN /\ events' = Append(events, EventRow(req[c].payload, Len(events) + 1, now))
            /\ req' = [req EXCEPT ![c] = [pc |-> "detect", headers |-> req[c].headers,
                                          row |-> Len(events) + 1]]
            /\ UNCHANGED acked
       ELSE /\ req' = [req EXCEPT ![c] = Idle(Some(IngestUnprocessable))]
            /\ UNCHANGED << events, acked >>
    /\ UNCHANGED << now, alerts, resp, log, agent, twin >>

\* main.py:68-69 and, when the rule does not apply, 103
IngestWindow(c) ==
    /\ req[c].pc = "detect"
    /\ LET row == events[req[c].row] IN
       IF RuleApplies(row)
       THEN /\ req' = [req EXCEPT ![c] = [pc |-> "count", headers |-> req[c].headers,
                          row |-> req[c].row, window_start |-> WindowStart(now)]]
            /\ UNCHANGED acked
       ELSE /\ req' = [req EXCEPT ![c] = Idle(Some(IngestOk(row)))]
            /\ acked' = Some([nonce |-> req[c].headers.x_nonce, at |-> now])
    /\ UNCHANGED << now, events, alerts, resp, log, agent, twin >>

\* main.py:71-78
IngestCount(c) ==
    /\ req[c].pc = "count"
    /\ LET row == events[req[c].row] IN
       req' = [req EXCEPT ![c] = [pc |-> "recent", headers |-> req[c].headers,
                  row |-> req[c].row, window_start |-> req[c].window_start,
                  fail_count |-> FailCount(events, row.src_ip, req[c].window_start)]]
    /\ UNCHANGED << now, events, alerts, resp, acked, log, agent, twin >>

\* main.py:80-87
IngestRecent(c) ==
    /\ req[c].pc = "recent"
    /\ LET row == events[req[c].row] IN
       req' = [req EXCEPT ![c] = [pc |-> "alert", headers |-> req[c].headers,
                  row |-> req[c].row, window_start |-> req[c].window_start,
                  fail_count |-> req[c].fail_count,
                  recent_alert |-> RecentAlert(alerts, row.src_ip, req[c].window_start)]]
    /\ UNCHANGED << now, events, alerts, resp, acked, log, agent, twin >>

\* main.py:89-103
IngestAlert(c) ==
    /\ req[c].pc = "alert"
    /\ LET row == events[req[c].row] IN
       /\ IF ShouldAlert(req[c].fail_count, req[c].recent_alert)
          THEN alerts' = Append(alerts, AlertRow(row, Len(alerts) + 1, now, req[c].fail_count))
          ELSE UNCHANGED alerts
       /\ req' = [req EXCEPT ![c] = Idle(Some(IngestOk(row)))]
       /\ acked' = Some([nonce |-> req[c].headers.x_nonce, at |-> now])
    /\ UNCHANGED << now, events, resp, log, agent, twin >>

\* main.py:199-207
ResolvedAlert(alert) == [alert EXCEPT !.is_active = FALSE]

\* main.py:207
ResolveOk(alert) == [op |-> "resolve", code |-> 200, id |-> alert.id, status |-> "resolved"]

\* main.py:203
ResolveNotFound == [op |-> "resolve", code |-> 404, detail |-> "Alert not found"]

\* PATCH /alerts/{alert_id}/resolve, main.py:199-207
ResolveAlert(alert_id) ==
    /\ IF alert_id \in 1..Len(alerts)
       THEN /\ alerts' = [alerts EXCEPT ![alert_id] = ResolvedAlert(alerts[alert_id])]
            /\ resp' = Some(ResolveOk(alerts[alert_id]))
       ELSE /\ resp' = Some(ResolveNotFound)
            /\ UNCHANGED alerts
    /\ UNCHANGED << now, events, req, acked, log, agent, twin >>

\* the router's answer to a path no route of main.py matches
RouteNotFound(op) == [op |-> op, code |-> 404, detail |-> "Not Found"]

\* PATCH /alerts/{alert_id}/reopen: main.py registers no such route
ReopenAlert(alert_id) ==
    /\ resp' = Some(RouteNotFound("reopen"))
    /\ UNCHANGED << now, events, alerts, req, acked, log, agent, twin >>

\* the headers of a request: the agent's sign_hmac sends the current time and a
\* fresh nonce; other clients send what they like
Headers(nonces, offsets) ==
    [x_timestamp : { now + d : d \in offsets }, x_nonce : nonces]

Ingest(c, payloads, nonces, offsets) ==
    \/ \E p \in payloads, h \in Headers(nonces, offsets) : IngestReceive(c, p, h)
    \/ IngestInsert(c)
    \/ IngestWindow(c)
    \/ IngestCount(c)
    \/ IngestRecent(c)
    \/ IngestAlert(c)

AlertIds == 1..(Len(alerts) + 1)

\* one /ingest call at a time
Next ==
    \/ Tick
    \/ Ingest(1, Payloads, {"n1"}, {0})

Spec == Init /\ [][Next]_vars

\* one /ingest call at a time, and the operator's calls on the alerts
NextAlerts ==
    \/ Tick
    \/ Ingest(1, {Attack}, {"n1"}, {0})
    \/ \E id \in AlertIds : ResolveAlert(id)
    \/ \E id \in AlertIds : ReopenAlert(id)

SpecAlerts == Init /\ [][NextAlerts]_vars

\* one /ingest call at a time, with the headers varied
NextAuth ==
    \/ Tick
    \/ Ingest(1, {Attack}, Nonces, SkewOffsets)

SpecAuth == Init /\ [][NextAuth]_vars

\* two /ingest calls in flight
NextConc ==
    \/ Tick
    \/ \E c \in Clients : Ingest(c, {Attack}, {"n1"}, {0})

SpecConc == Init /\ [][NextConc]_vars

\* FastAPI's answer to an exception that the handler lets through
IngestServerError == [code |-> 500]

\* main.py:78, 87, 101: db.execute or db.commit raises while the rule is
\* evaluated; ingest has no try/except, the exception leaves the handler
IngestRuleFails(c) ==
    /\ req[c].pc \in {"count", "recent", "alert"}
    /\ req' = [req EXCEPT ![c] = Idle(Some(IngestServerError))]
    /\ UNCHANGED << now, events, alerts, resp, acked, log, agent, twin >>

\* one /ingest call at a time, the database failing at times
NextFault ==
    \/ Tick
    \/ Ingest(1, {Attack}, {"n1"}, {0})
    \/ IngestRuleFails(1)

SpecFault == Init /\ [][NextFault]_vars

\* two /ingest calls in flight, within MaxRaceTime minutes
NextRace ==
    \/ now < MaxRaceTime /\ Tick
    \/ \E c \in Clients : Ingest(c, {Attack}, {"n1"}, {0})

SpecRace == Init /\ [][NextRace]_vars

\* -------------------------------------------------------------- the agent
\* src/agent/sentinellab_agent.py. A log line is what the agent's regular
\* expressions see in it: whether it holds "sshd", what RE_FAILED and
\* RE_ACCEPTED capture, its syslog second t, and the length of line.strip().
FailedLine ==
    [sshd |-> TRUE, failed |-> Some([user |-> "root", ip |-> "10.0.0.5"]),
     accepted |-> None, t |-> Some(0), len |-> 80]
LogLines ==
    { FailedLine,
      [FailedLine EXCEPT !.failed = None,
                         !.accepted = Some([user |-> "root", ip |-> "10.0.0.5"])],
      [FailedLine EXCEPT !.failed = None],
      [FailedLine EXCEPT !.sshd = FALSE, !.failed = None],
      [FailedLine EXCEPT !.len = MessageMaxLen + 1] }

\* --host, sentinellab_agent.py:128
AgentHost == "web1"

\* syslog_ts_to_iso, sentinellab_agent.py:28-43
SyslogTsToIso(line) ==
    IF line.t = None
    THEN [t |-> now, tzinfo |-> Some("UTC")]
    ELSE [t |-> line.t[1], tzinfo |-> Some("UTC")]

\* parse_auth_line, sentinellab_agent.py:46-77
ParseAuthLine(host, line) ==
    IF ~line.sshd THEN None
    ELSE LET m1 == IF line.failed # None
                   THEN [event_type |-> Some("ssh_failed_login"),
                         user |-> Some(line.failed[1].user),
                         src_ip |-> Some(line.failed[1].ip)]
                   ELSE [event_type |-> None, user |-> None, src_ip |-> None]
             m2 == IF line.accepted # None
                   THEN [event_type |-> Some("ssh_login_success"),
                         user |-> Some(line.accepted[1].user),
                         src_ip |-> Some(line.accepted[1].ip)]
                   ELSE m1
         IN  IF m2.event_type = None THEN None
             ELSE Some([ts |-> SyslogTsToIso(line), host |-> host,
                        event_type |-> m2.event_type[1], src_ip |-> m2.src_ip,
                        user |-> m2.user, message |-> line.len])

\* the status test with its upper bound forgotten
IsSuccess_AnyStatus(code) == code >= 200

\* sentinellab_agent.py:148
IsSuccess(code) == code >= 200 /\ code < 300

\* the retry loop left on a failure
AfterFailure_NextLine == "read"

\* sentinellab_agent.py:150-160: after a failure the loop sends again
AfterFailure == "send"

\* the agent gives up sending when it has made this many attempts
AttemptCap == MaxLines + MaxFailures

\* a line is appended to the log file
LogAppend(line) ==
    /\ Len(log) < MaxLines
    /\ log' = Append(log, [line EXCEPT !.t = Some(Len(log) + 1)])
    /\ UNCHANGED << now, events, alerts, req, resp, acked, agent, twin >>

\* follow_file and sentinellab_agent.py:139-142: the next line is read and parsed
AgentRead ==
    /\ agent.pc = "read"
    /\ agent.pos < Len(log)
    /\ LET evt == ParseAuthLine(AgentHost, log[agent.pos + 1]) IN
       agent' = [agent EXCEPT !.pos = agent.pos + 1, !.evt = evt,
                    !.pc = IF evt = None THEN "read" ELSE "send"]
    /\ UNCHANGED << now, events, alerts, req, resp, acked, log, twin >>

\* sign_hmac, sentinellab_agent.py:80-85: the current time and a fresh nonce
SignHmac == [x_timestamp |-> now, x_nonce |-> Len(agent.attempts) + 1]

\* post_json, sentinellab_agent.py:88-104: the request reaches the collector,
\* on the first connection that is free
AgentPost(c) ==
    /\ agent.pc = "send"
    /\ Len(agent.attempts) < AttemptCap
    /\ req[c].pc = "idle"
    /\ \A d \in Clients : d < c => req[d].pc # "idle"
    /\ req' = [req EXCEPT ![c] = [pc |-> "received", payload |-> agent.evt[1],
                                  headers |-> SignHmac]]
    /\ agent' = [agent EXCEPT !.pc = "wait", !.conn = c,
                    !.attempts = Append(agent.attempts, agent.pos)]
    /\ UNCHANGED << now, events, alerts, resp, acked, log, twin >>

\* sentinellab_agent.py:155-157: URLError, the request reaches nobody
AgentPostFails ==
    /\ agent.pc = "send"
    /\ Len(agent.attempts) < AttemptCap
    /\ agent.failures < MaxFailures
    /\ agent' = [agent EXCEPT !.pc = AfterFailure, !.evt = IF AfterFailure = "send" THEN agent.evt ELSE None,
                    !.failures = agent.failures + 1,
                    !.attempts = Append(agent.attempts, agent.pos)]
    /\ UNCHANGED << now, events, alerts, req, resp, acked, log, twin >>

\* sentinellab_agent.py:147-154: the response of the attempt in flight
AgentResponse ==
    /\ agent.pc = "wait"
    /\ req[agent.conn].pc = "idle"
    /\ IF IsSuccess(req[agent.conn].response[1].code)
       THEN agent' = [agent EXCEPT !.pc = "read", !.evt = None, !.conn = 0,
                         !.acks = agent.acks \cup {agent.pos}]
       ELSE agent' = [agent EXCEPT !.pc = AfterFailure, !.conn = 0,
                         !.evt = IF AfterFailure = "send" THEN agent.evt ELSE None]
    /\ UNCHANGED << now, events, alerts, req, resp, acked, log, twin >>

\* sentinellab_agent.py:103, 155-160: the 5 s timeout, or the connection
\* breaking, while the collector still works on the request
AgentTimeout ==
    /\ agent.pc = "wait"
    /\ agent.failures < MaxFailures
    /\ agent' = [agent EXCEPT !.pc = AfterFailure, !.conn = 0,
                    !.evt = IF AfterFailure = "send" THEN agent.evt ELSE None,
                    !.failures = agent.failures + 1]
    /\ UNCHANGED << now, events, alerts, req, resp, acked, log, twin >>

\* the collector works on client c's call, main.py:49-103
Handle(c) ==
    \/ IngestInsert(c)
    \/ IngestWindow(c)
    \/ IngestCount(c)
    \/ IngestRecent(c)
    \/ IngestAlert(c)

AgentStep ==
    \/ AgentRead
    \/ \E c \in Clients : AgentPost(c)
    \/ AgentResponse

\* the agent and the collector
NextAgent ==
    \/ \E line \in LogLines : LogAppend(line)
    \/ AgentStep
    \/ AgentPostFails
    \/ AgentTimeout
    \/ \E c \in Clients : Handle(c)

SpecAgent == Init /\ [][NextAgent]_vars

\* the agent's loop keeps running and the collector finishes every call
FairSpecAgent ==
    /\ SpecAgent
    /\ WF_vars(AgentStep)
    /\ WF_vars(\E c \in Clients : Handle(c))

\* ------------------------------------------------------ sustained attack
\* the attacker keeps posting failed logins
AttackerPost(c) ==
    /\ req[c].pc = "idle"
    /\ Inserted < MaxSustained
    /\ req' = [req EXCEPT ![c] = [pc |-> "received", payload |-> Attack,
                                  headers |-> [x_timestamp |-> now, x_nonce |-> "n1"]]]
    /\ UNCHANGED << now, events, alerts, resp, acked, log, agent, twin >>

\* one /ingest call at a time, the attack sustained
NextSustained ==
    \/ Tick
    \/ AttackerPost(1)
    \/ Handle(1)

SpecSustained == Init /\ [][NextSustained]_vars

\* ------------------------------------------------------- the list routes
\* GET /events and GET /alerts, main.py:106-148, on tables that a sustained
\* attack has filled: burst j is Threshold failed logins at minute
\* (Window + 1) * (j - 1), and its last call raises alert j.
Bursts == (0..20) \cup {100, 201}

BurstTime(j) == (Window + 1) * (j - 1)

BurstEvents(k) ==
    [i \in 1..(Threshold * k) |-> EventRow(Attack, i, BurstTime(((i - 1) \div Threshold) + 1))]

BurstAlerts(k) ==
    [j \in 1..k |-> AlertRow(EventRow(Attack, Threshold * j, BurstTime(j)), j,
                             BurstTime(j), Threshold)]

\* the values of the query parameter limit
ListLimits == {-1, 0, 1, 3, 200, 201, 500, 501, 10000}

\* rows of equal sort key come in an order the database chooses
TieOrders == {"id_asc", "id_desc"}

\* Python's max and min
Max(a, b) == IF a >= b THEN a ELSE b
Min(a, b) == IF a <= b THEN a ELSE b

\* main.py:108 and main.py:130
EventsLimitMax == 500
AlertsLimitMax == 200

\* the limit of /events with the upper bound forgotten
EventsLimit_NoUpper(limit) == Max(1, limit)

\* main.py:108
EventsLimit(limit) == Max(1, Min(limit, EventsLimitMax))

\* main.py:130
AlertsLimit(limit) == Max(1, Min(limit, AlertsLimitMax))

\* .limit(n) of a select
Limit(rows, n) == SubSeq(rows, 1, Min(n, Len(rows)))

Before(tie, a, b) == IF tie = "id_asc" THEN a.id < b.id ELSE a.id > b.id

\* main.py:109: order_by(desc(Event.received_at))
OrderByReceivedAtDesc(rows, tie) ==
    LET Desc(a, b) == \/ a.received_at > b.received_at
                      \/ a.received_at = b.received_at /\ Before(tie, a, b)
    IN  SortSeq(rows, Desc)

\* main.py:131: order_by(desc(Alert.created_at))
OrderByCreatedAtDesc(rows, tie) ==
    LET Desc(a, b) == \/ a.created_at > b.created_at
                      \/ a.created_at = b.created_at /\ Before(tie, a, b)
    IN  SortSeq(rows, Desc)

\* main.py:113-123
EventItem(r) ==
    [id |-> r.id, ts |-> r.ts, host |-> r.host, event_type |-> r.event_type,
     src_ip |-> r.src_ip, user |-> r.user, message |-> r.message,
     received_at |-> r.received_at]

\* main.py:135-146
AlertItem(a) ==
    [id |-> a.id, created_at |-> a.created_at, rule |-> a.rule,
     severity |-> a.severity, host |-> a.host, src_ip |-> a.src_ip,
     user |-> a.user, message |-> a.message, is_active |-> a.is_active]

\* main.py:112-124
EventItems(rows) == [i \in 1..Len(rows) |-> EventItem(rows[i])]

\* main.py:134-147
AlertItems(rows) == [i \in 1..Len(rows) |-> AlertItem(rows[i])]

\* main.py:125 and main.py:148; op and limit name the call that is answered
ListOk(op, limit, items) ==
    [op |-> op, limit |-> limit, code |-> 200, count |-> Len(items), items |-> items]

ListOps == {"events", "alerts"}

\* a client sends GET /events?limit=... or GET /alerts?limit=...
ListReceive(c, op, limit) ==
    /\ req[c].pc = "idle"
    /\ req' = [req EXCEPT ![c] = [pc |-> "list", op |-> op, limit |-> limit]]
    /\ UNCHANGED << now, events, alerts, resp, acked, log, agent, twin >>

\* GET /events, main.py:106-125
ListEvents(c, tie) ==
    /\ req[c].pc = "list" /\ req[c].op = "events"
    /\ LET limit == EventsLimit(req[c].limit)
           rows == Limit(OrderByReceivedAtDesc(events, tie), limit) IN
       req' = [req EXCEPT ![c] = Idle(Some(ListOk("events", req[c].limit,
                                                  EventItems(rows))))]
    /\ UNCHANGED << now, events, alerts, resp, acked, log, agent, twin >>

\* GET /alerts, main.py:128-148
ListAlerts(c, tie) ==
    /\ req[c].pc = "list" /\ req[c].op = "alerts"
    /\ LET limit == AlertsLimit(req[c].limit)
           rows == Limit(OrderByCreatedAtDesc(alerts, tie), limit) IN
       req' = [req EXCEPT ![c] = Idle(Some(ListOk("alerts", req[c].limit,
                                                  AlertItems(rows))))]
    /\ UNCHANGED << now, events, alerts, resp, acked, log, agent, twin >>

\* the collector after k bursts, the first r alerts resolved by the operator
AfterBursts(k, r) ==
    /\ now = IF k = 0 THEN 0 ELSE BurstTime(k)
    /\ events = BurstEvents(k)
    /\ alerts = [j \in 1..k |-> IF j <= r THEN ResolvedAlert(BurstAlerts(k)[j])
                                          ELSE BurstAlerts(k)[j]]
    /\ req = [c \in Clients |->
                IF c = 1 /\ k > 0
                THEN Idle(Some(IngestOk(BurstEvents(k)[Threshold * k])))
                ELSE Idle(None)]
    /\ resp = IF r = 0 THEN None ELSE Some(ResolveOk(BurstAlerts(k)[r]))
    /\ acked = IF k = 0 THEN None
               ELSE Some([nonce |-> "n1", at |-> BurstTime(k)])
    /\ log = << >>
    /\ agent = [pc |-> "read", pos |-> 0, evt |-> None, conn |-> 0,
                attempts |-> << >>, acks |-> {}, failures |-> 0]
    /\ twin = TwinStart

InitList == \E k \in Bursts : AfterBursts(k, 0)

NextList ==
    \/ \E op \in ListOps, limit \in ListLimits : ListReceive(1, op, limit)
    \/ \E tie \in TieOrders : ListEvents(1, tie)
    \/ \E tie \in TieOrders : ListAlerts(1, tie)

SpecList == InitList /\ [][NextList]_vars

\* ----------------------------------------------------- the dashboard data
\* GET /dashboard/data, main.py:217-293
DashBursts == {0, 1, 2, 201}
DashResolved == {0, 1}

\* the values of alerts_limit and of events_limit
DashLimits == {0, 1, 200, 201}

\* Query(25, ge=1, le=200), main.py:220-221
DashLimitGe == 1
DashLimitLe == 200

\* timedelta(hours=1) in minutes, main.py:227
Hour == 60

\* the query strings of a call
DashCalls ==
    [alerts_limit : DashLimits, events_limit : DashLimits, active_only : BOOLEAN,
     severity : {None, Some("high"), Some("low")},
     src_ip : {None, Some("10.0.0.6")}]

\* Query(ge=1) alone
QueryValid_NoLe(v) == v >= DashLimitGe

\* Query(25, ge=1, le=200), main.py:220-221
QueryValid(v) == v >= DashLimitGe /\ v <= DashLimitLe

\* main.py:229-244
Kpi(evs, als, clock) ==
    [active_alerts |-> Cardinality({ i \in 1..Len(als) : als[i].is_active }),
     total_alerts |-> Len(als),
     events_last_hour |->
         Cardinality({ i \in 1..Len(evs) : evs[i].received_at >= clock - Hour }),
     total_events |-> Len(evs)]

\* main.py:246-252
AlertsStmt(als, call) ==
    LET Where(a) ==
            /\ call.active_only => a.is_active
            /\ Truthy(call.severity) => a.severity = call.severity[1]
            /\ Truthy(call.src_ip) => a.src_ip = call.src_ip
    IN  SelectSeq(als, Where)

\* main.py:260-271
AlertToDict(a) ==
    [id |-> a.id, created_at |-> a.created_at, rule |-> a.rule,
     severity |-> a.severity, host |-> a.host, src_ip |-> a.src_ip,
     user |-> a.user, message |-> a.message, is_active |-> a.is_active]

\* main.py:273-282
EventToDict(r) ==
    [id |-> r.id, received_at |-> r.received_at, event_type |-> r.event_type,
     host |-> r.host, src_ip |-> r.src_ip, user |-> r.user, message |-> r.message]

\* main.py:291-292
AlertDicts(rows) == [i \in 1..Len(rows) |-> AlertToDict(rows[i])]
EventDicts(rows) == [i \in 1..Len(rows) |-> EventToDict(rows[i])]

\* main.py:284-293; call names the call that is answered
DashboardOk(call, kpi, als, evs) ==
    [op |-> "dashboard", code |-> 200, call |-> call, kpi |-> kpi,
     alerts |-> als, events |-> evs]

\* FastAPI's answer to a query parameter that Query(ge, le) rejects
DashboardUnprocessable(call) == [op |-> "dashboard", code |-> 422, call |-> call]

\* a client sends GET /dashboard/data?...
DashboardReceive(c, call) ==
    /\ req[c].pc = "idle"
    /\ req' = [req EXCEPT ![c] = [pc |-> "dashboard", call |-> call]]
    /\ UNCHANGED << now, events, alerts, resp, acked, log, agent, twin >>

\* main.py:217-293
DashboardData(c, tie) ==
    /\ req[c].pc = "dashboard"
    /\ LET call == req[c].call IN
       IF QueryValid(call.alerts_limit) /\ QueryValid(call.events_limit)
       THEN LET als == Limit(OrderByCreatedAtDesc(AlertsStmt(alerts, call), tie),
                             call.alerts_limit)
                evs == Limit(OrderByReceivedAtDesc(events, tie), call.events_limit)
            IN  req' = [req EXCEPT ![c] = Idle(Some(DashboardOk(call,
                           Kpi(events, alerts, now), AlertDicts(als), EventDicts(evs))))]
       ELSE req' = [req EXCEPT ![c] = Idle(Some(DashboardUnprocessable(call)))]
    /\ UNCHANGED << now, events, alerts, resp, acked, log, agent, twin >>

InitDash == \E k \in DashBursts, r \in DashResolved : r <= k /\ AfterBursts(k, r)

NextDash ==
    \/ \E call \in DashCalls : DashboardReceive(1, call)
    \/ \E tie \in TieOrders : DashboardData(1, tie)

SpecDash == InitDash /\ [][NextDash]_vars

\* ---------------------------------------------------- two runs compared
\* A second run of the collector receives the calls of the first at the same
\* collector times, the ts of each payload replaced. It follows the first run
\* step by step: twin.seen is the call of the first run that it has followed.
TwinTsValues == {Attack.ts, [t |-> 1, tzinfo |-> None]}

\* main.py:49-103 as a function of the collector's state st = [events, alerts,
\* req]: the next step of the call in flight, or the arrival of payload p
IngestStep(st, p, clock) ==
    LET r == st.req
        row == st.events[r.row]
    IN
    CASE r.pc = "idle" ->
           [st EXCEPT !.req = [pc |-> "received", payload |-> p]]
      [] r.pc = "received" ->
           IF IngestEventValid(r.payload)
           THEN [st EXCEPT !.events = Append(st.events,
                                 EventRow(r.payload, Len(st.events) + 1, clock)),
                           !.req = [pc |-> "detect", row |-> Len(st.events) + 1]]
           ELSE [st EXCEPT !.req = Idle(Some(IngestUnprocessable))]
      [] r.pc = "detect" ->
           IF RuleApplies(row)
           THEN [st EXCEPT !.req = [pc |-> "count", row |-> r.row,
                                    window_start |-> WindowStart(clock)]]
           ELSE [st EXCEPT !.req = Idle(Some(IngestOk(row)))]
      [] r.pc = "count" ->
           [st EXCEPT !.req = [pc |-> "recent", row |-> r.row,
                  window_start |-> r.window_start,
                  fail_count |-> FailCount(st.events, row.src_ip, r.window_start)]]
      [] r.pc = "recent" ->
           [st EXCEPT !.req = [pc |-> "alert", row |-> r.row,
                  window_start |-> r.window_start, fail_count |-> r.fail_count,
                  recent_alert |-> RecentAlert(st.alerts, row.src_ip, r.window_start)]]
      [] r.pc = "alert" ->
           [st EXCEPT !.alerts = IF ShouldAlert(r.fail_count, r.recent_alert)
                                 THEN Append(st.alerts, AlertRow(row, Len(st.alerts) + 1,
                                                                 clock, r.fail_count))
                                 ELSE st.alerts,
                      !.req = Idle(Some(IngestOk(row)))]

\* the second run has followed every step of the first
InSync == twin.seen = req[1]

\* the second run takes the step the first has just taken
TwinFollow(ts) ==
    /\ ~InSync
    /\ twin.req.pc = "idle" => req[1].pc = "received"
    /\ LET p == IF req[1].pc = "received" THEN [req[1].payload EXCEPT !.ts = ts]
                                           ELSE Attack
       IN  twin' = [IngestStep(twin, p, now) EXCEPT !.seen = req[1]]
    /\ UNCHANGED << now, events, alerts, req, resp, acked, log, agent >>

NextTwin ==
    \/ InSync /\ Tick
    \/ InSync /\ Inserted < MaxTwinEvents
              /\ \E h \in Headers({"n1"}, {0}) : IngestReceive(1, Attack, h)
    \/ InSync /\ Handle(1)
    \/ \E ts \in TwinTsValues : TwinFollow(ts)

SpecTwin == Init /\ [][NextTwin]_vars

\* ------------------------------------------------------------ the claims
\* rows of the two tables, by source address
FailedFrom(ip) ==
    { i \in 1..Len(events) : events[i].event_type = "ssh_failed_login"
                               /\ events[i].src_ip = ip }
AlertsFor(als, ip) ==
    { i \in 1..Len(als) : als[i].rule = "ssh_bruteforce" /\ als[i].src_ip = ip }
SrcIps == { events[i].src_ip : i \in 1..Len(events) } \ {None, Some("")}

\* the step in which client c's call runs main.py:89-103
AlertStep(c) == req[c].pc = "alert" /\ req'[c].pc = "idle"

\* C1: when the failed logins of a src_ip all lie within 2 minutes of the clock,
\* the call that stores the 5th inserts the one ssh_bruteforce alert for that
\* src_ip (severity high, is_active true), and the call that stores the 6th or
\* a later one inserts none.
C1_FiveFailuresOneAlert ==
    [][ \A c \in Clients : AlertStep(c) =>
          LET ip == events[req[c].row].src_ip
              F == FailedFrom(ip)
              within == \A i \in F : now - events[i].received_at <= 2
              mine == AlertsFor(alerts', ip)
          IN  /\ (within /\ Cardinality(F) = 5) =>
                    /\ AlertsFor(alerts, ip) = {}
                    /\ Len(alerts') = Len(alerts) + 1
                    /\ mine = {Len(alerts')}
                    /\ alerts'[Len(alerts')].severity = "high"
                    /\ alerts'[Len(alerts')].is_active = TRUE
              /\ (within /\ Cardinality(F) >= 6) =>
                    /\ alerts' = alerts
                    /\ Cardinality(mine) = 1 ]_vars

\* C1 witness: six failed logins of one src_ip within 2 minutes, all answered,
\* and one alert.
C1_Witness ==
    /\ req[1].pc = "idle"
    /\ \E ip \in SrcIps :
          /\ Cardinality(FailedFrom(ip)) = 6
          /\ \A i \in FailedFrom(ip) : now - events[i].received_at <= 2
          /\ Cardinality(AlertsFor(alerts, ip)) = 1

\* C2: a call inserts an alert only if at least 5 failed logins of its src_ip
\* have received_at inside the 2 minutes before the rule's evaluation; a src_ip
\* with at most 4 failed logins stored has no alert, whatever other addresses sent.
C2_BelowThresholdNoAlert ==
    [][ /\ \A c \in Clients : (AlertStep(c) /\ alerts' # alerts) =>
              LET ip == events[req[c].row].src_ip
                  evaluated == req[c].window_start + 2
              IN  Cardinality({ i \in FailedFrom(ip) :
                        evaluated - events[i].received_at <= 2 }) >= 5
        /\ \A i \in 1..Len(alerts') :
              Cardinality({ j \in 1..Len(events') :
                    /\ events'[j].event_type = "ssh_failed_login"
                    /\ events'[j].src_ip = alerts'[i].src_ip }) >= 5 ]_vars

\* C2 witness: four failed logins of one src_ip and one of another, all
\* answered, and no alert.
C2_Witness ==
    /\ req[1].pc = "idle"
    /\ alerts = << >>
    /\ \E ip \in SrcIps : Cardinality(FailedFrom(ip)) = 4
    /\ \E ip \in SrcIps : Cardinality(FailedFrom(ip)) = 1

\* C3: under sequential ingestion, a src_ip none of whose 2-minute spans of
\* received_at holds 5 failed logins has no alert.
C3_OldFailuresNotCounted ==
    \A ip \in SrcIps :
        (\A t \in 0..now :
            Cardinality({ i \in FailedFrom(ip) :
                events[i].received_at >= t /\ events[i].received_at <= t + 2 }) < 5)
        => AlertsFor(alerts, ip) = {}

\* C3 witness: five failed logins of one src_ip, the first more than 2 minutes
\* before the last, all answered, and no alert.
C3_Witness ==
    /\ req[1].pc = "idle"
    /\ alerts = << >>
    /\ \E ip \in SrcIps :
          /\ Cardinality(FailedFrom(ip)) >= 5
          /\ \E i, j \in FailedFrom(ip) :
                events[j].received_at - events[i].received_at > 2

\* C4: no two active ssh_bruteforce alerts of one src_ip have created_at
\* within 2 minutes of each other.
C4_OneActiveAlertPerWindow ==
    \A i, j \in 1..Len(alerts) :
        ( /\ i < j
          /\ alerts[i].rule = "ssh_bruteforce" /\ alerts[j].rule = "ssh_bruteforce"
          /\ alerts[i].src_ip = alerts[j].src_ip
          /\ alerts[i].is_active /\ alerts[j].is_active )
        => alerts[j].created_at - alerts[i].created_at > 2

\* C5: every alert is active exactly when its resolved_at is absent.
C5_ActiveIffNotResolvedAt ==
    \A i \in 1..Len(alerts) :
        alerts[i].is_active <=> (alerts[i].resolved_at = None)

\* C6: resolving an alert that is already resolved answers "already_resolved"
\* and leaves the alert as it is.
C6_ResolveTwiceAlreadyResolved ==
    [][ \A id \in 1..Len(alerts) :
          (ResolveAlert(id) /\ ~alerts[id].is_active) =>
              /\ resp'[1].status = "already_resolved"
              /\ alerts'[id] = alerts[id] ]_vars

\* C7: reopening an existing alert leaves it active with no resolved_at, and
\* reopening an unknown id answers not-found and changes no alert.
C7_ReopenRestoresOpenAlert ==
    [][ \A id \in AlertIds : ReopenAlert(id) =>
          IF id \in 1..Len(alerts)
          THEN /\ alerts'[id].is_active = TRUE
               /\ alerts'[id].resolved_at = None
          ELSE /\ resp'[1].code = 404
               /\ alerts' = alerts ]_vars

\* the step in which client c's call runs main.py:49-65
InsertStep(c) == req[c].pc = "received" /\ req'[c].pc # "received"

\* C8: a valid request whose nonce was acknowledged less than the nonce TTL
\* ago is rejected and stores no event.
C8_ReplayRejected ==
    [][ \A c \in Clients :
          ( /\ InsertStep(c)
            /\ acked # None
            /\ acked[1].nonce = req[c].headers.x_nonce
            /\ now - acked[1].at <= NonceTtl
            /\ req[c].headers.x_timestamp - now <= MaxSkew
            /\ now - req[c].headers.x_timestamp <= MaxSkew )
          => /\ events' = events
             /\ req'[c].pc = "idle"
             /\ req'[c].response[1].code = 401 ]_vars

\* C9: a request whose X-Timestamp is more than 120 seconds from the collector
\* clock is rejected and stores no event.
C9_SkewRejected ==
    [][ \A c \in Clients :
          ( /\ InsertStep(c)
            /\ \/ req[c].headers.x_timestamp - now > MaxSkew
               \/ now - req[c].headers.x_timestamp > MaxSkew )
          => /\ events' = events
             /\ alerts' = alerts
             /\ req'[c].pc = "idle"
             /\ req'[c].response[1].code = 401 ]_vars

\* C10: a payload whose event_type is none of the three, or whose message has
\* length 0 or more than 2000, is answered with a validation error, and the
\* events and alerts stay as they were.
C10_InvalidPayloadRejected ==
    [][ \A c \in Clients :
          ( /\ InsertStep(c)
            /\ \/ req[c].payload.event_type \notin
                     {"ssh_failed_login", "ssh_login_success", "generic"}
               \/ req[c].payload.message = 0
               \/ req[c].payload.message > 2000 )
          => /\ req'[c] = Idle(Some([code |-> 422]))
             /\ events' = events
             /\ alerts' = alerts ]_vars

\* C10 witness: a call was answered with the validation error while events
\* are stored, and none was added.
C10_Witness ==
    /\ req[1].pc = "idle"
    /\ req[1].response = Some([code |-> 422])
    /\ Len(events) = 2

\* the lines read so far from which the agent parsed an event
Parsed(a) ==
    { k \in 1..a.pos : ParseAuthLine(AgentHost, log[k]) # None }

\* the Event rows that come from log line k (its syslog second is k)
RowsOfLine(evs, k) == { i \in 1..Len(evs) : evs[i].ts.t = k }

\* C11: the agent gives up the event it holds only on observing a 2xx response
\* to an attempt for it; every attempt it makes while holding an event carries
\* that event; it reads no further line while it holds one; and an event the
\* collector has stored is eventually acknowledged to the agent.
C11_NeverDropsUntilAcked ==
    /\ [][ /\ (agent.evt # None /\ agent'.evt # agent.evt) =>
                /\ agent.pc = "wait"
                /\ req[agent.conn].pc = "idle"
                /\ req[agent.conn].response[1].code \in 200..299
                /\ agent'.acks = agent.acks \cup {agent.pos}
           /\ \A c \in Clients :
                (req[c].pc = "idle" /\ req'[c].pc = "received") =>
                    /\ agent.evt # None
                    /\ req'[c].payload = agent.evt[1]
                    /\ req'[c].payload = ParseAuthLine(AgentHost, log[agent.pos])[1]
           /\ (agent'.pos # agent.pos) =>
                /\ agent.evt = None
                /\ Parsed(agent) \subseteq agent.acks ]_vars
    /\ \A k \in 1..MaxLines : (RowsOfLine(events, k) # {}) ~> (k \in agent.acks)

\* C11 witness: the first line's event was acknowledged after an attempt failed.
C11_Witness ==
    /\ 1 \in agent.acks
    /\ agent.failures >= 1
    /\ Len(agent.attempts) >= 2
    /\ agent.attempts[2] = 1

\* C12: an attempt for a line is made only when every event parsed from an
\* earlier line has been acknowledged with a 2xx response.
C12_SendsInLogOrder ==
    [][ Len(agent'.attempts) > Len(agent.attempts) =>
          LET k == agent'.attempts[Len(agent'.attempts)] IN
          /\ \A j \in Parsed(agent) : j < k => j \in agent.acks
          /\ \A n \in 1..Len(agent.attempts) : agent.attempts[n] <= k ]_vars

\* C12 witness: both lines gave an event, an attempt for the first failed, and
\* the second is on its way after the first was acknowledged.
C12_Witness ==
    /\ Len(log) = 2
    /\ Parsed(agent) = {1, 2}
    /\ agent.failures >= 1
    /\ 1 \in agent.acks
    /\ agent.pc = "wait"

\* the step in which client c's call runs main.py:71-78
CountStep(c) == req[c].pc = "count" /\ req'[c].pc = "recent"

\* C20: a retry carries a nonce no earlier attempt carried; the collector
\* stores a valid event again when rows from the same log line are already
\* stored; and the rule counts every one of those rows.
C20_RetryStoredAgain ==
    [][ /\ \A c \in Clients :
              (req[c].pc = "idle" /\ req'[c].pc = "received") =>
                  /\ req'[c].headers.x_timestamp = now
                  /\ \A d \in Clients : (d # c /\ req[d].pc # "idle") =>
                        req[d].headers.x_nonce # req'[c].headers.x_nonce
                  /\ acked # None => acked[1].nonce # req'[c].headers.x_nonce
        /\ \A c \in Clients :
              ( /\ InsertStep(c)
                /\ req'[c].pc # "idle"
                /\ RowsOfLine(events, req[c].payload.ts.t) # {} )
              => /\ Len(events') = Len(events) + 1
                 /\ Cardinality(RowsOfLine(events', req[c].payload.ts.t)) >= 2
        /\ \A c \in Clients :
              CountStep(c) =>
                  req'[c].fail_count
                      >= Cardinality(RowsOfLine(events, events[req[c].row].ts.t)) ]_vars

\* C20 witness: one log line, two Event rows, and the rule has counted both.
C20_Witness ==
    /\ Len(log) = 1
    /\ Len(events) = 2
    /\ \E c \in Clients : req[c].pc = "recent" /\ req[c].fail_count = 2

\* the items are rows of the table, newest first, and no row left out is newer
\* than a row returned
MostRecentFirst(items, rows, Key(_)) ==
    LET ids == { items[i].id : i \in 1..Len(items) } IN
    /\ ids \subseteq 1..Len(rows)
    /\ Cardinality(ids) = Len(items)
    /\ \A i \in 1..Len(items) : Key(items[i]) = Key(rows[items[i].id])
    /\ \A i \in 1..(Len(items) - 1) : Key(items[i]) >= Key(items[i + 1])
    /\ Len(items) > 0 =>
           \A r \in (1..Len(rows)) \ ids : Key(rows[r]) <= Key(items[Len(items)])

\* clamp(limit, 1, hi)
Clamp(limit, hi) == IF limit < 1 THEN 1 ELSE IF limit > hi THEN hi ELSE limit

ReceivedAt(r) == r.received_at
CreatedAt(r) == r.created_at

\* C13: for every integer limit, GET /events answers 200 with exactly
\* min(N, clamp(limit, 1, 500)) items, N the number of stored events, and
\* GET /alerts likewise with the bound 200; the items are the most recent rows
\* by received_at (created_at for the alerts), in descending order.
C13_ListClampsLimit ==
    \A c \in Clients :
        (req[c].pc = "idle" /\ req[c].response # None /\ req[c].response[1].code = 200
                            /\ "limit" \in DOMAIN req[c].response[1]) =>
            LET r == req[c].response[1] IN
            /\ r.op \in {"events", "alerts"}
            /\ r.op = "events" =>
                  /\ r.count = Min(Len(events), Clamp(r.limit, 500))
                  /\ Len(r.items) = r.count
                  /\ MostRecentFirst(r.items, events, ReceivedAt)
            /\ r.op = "alerts" =>
                  /\ r.count = Min(Len(alerts), Clamp(r.limit, 200))
                  /\ Len(r.items) = r.count
                  /\ MostRecentFirst(r.items, alerts, CreatedAt)

\* /events has answered a limit above 500 on a table of more than 500 events
C13_Witness ==
    /\ Len(events) > 500
    /\ req[1].pc = "idle" /\ req[1].response # None
    /\ "limit" \in DOMAIN req[1].response[1]
    /\ req[1].response[1].op = "events" /\ req[1].response[1].limit > 500
    /\ req[1].response[1].count = 500

\* the answer of GET /dashboard/data that client c holds
DashAnswered(c) ==
    /\ req[c].pc = "idle" /\ req[c].response # None
    /\ "call" \in DOMAIN req[c].response[1]

\* C14 as the specification states it: for every integer alerts_limit and
\* events_limit, also below 1 or above 200, GET /dashboard/data succeeds and
\* returns at most clamp(alerts_limit, 1, 200) alerts and at most
\* clamp(events_limit, 1, 200) events.
C14_DashboardClampsLimits ==
    \A c \in Clients : DashAnswered(c) =>
        LET r == req[c].response[1] IN
        /\ r.code = 200
        /\ Len(r.alerts) <= Clamp(r.call.alerts_limit, 200)
        /\ Len(r.events) <= Clamp(r.call.events_limit, 200)

\* C14, amended: with alerts_limit and events_limit both within 1..200,
\* GET /dashboard/data succeeds and returns at most alerts_limit alerts and
\* exactly min(N, events_limit) events; a call with either limit below 1 or
\* above 200 is rejected with 422 and returns no list.
C14_DashboardRejectsOutOfRange ==
    \A c \in Clients : DashAnswered(c) =>
        LET r == req[c].response[1] IN
        IF r.call.alerts_limit \in 1..200 /\ r.call.events_limit \in 1..200
        THEN /\ r.code = 200
             /\ Len(r.alerts) <= r.call.alerts_limit
             /\ Len(r.events) = Min(Len(events), r.call.events_limit)
        ELSE /\ r.code = 422
             /\ DOMAIN r = {"op", "code", "call"}

\* a call with alerts_limit above 200 has been answered, on a table of more
\* than 200 active alerts
C14_Witness ==
    /\ DashAnswered(1)
    /\ req[1].response[1].call.alerts_limit > 200
    /\ req[1].response[1].call.events_limit \in 1..200
    /\ Cardinality({ i \in 1..Len(alerts) : alerts[i].is_active }) > 200

\* the rows without the client's ts
EraseTs(evs) == [i \in 1..Len(evs) |-> [evs[i] EXCEPT !.ts = None]]

\* what a run shows of its call: where it is and what it has answered
CallOf(r) == IF r.pc = "idle" THEN r ELSE [pc |-> r.pc]

\* C15: the stored received_at of every event is the collector clock at the
\* time of the ingest call; and two runs of the collector that receive the
\* same calls at the same collector times, differing only in the ts of the
\* payloads, store the same received_at, give the same answers and create the
\* same alerts at the same points.
C15_ReceivedAtIndependentOfTs ==
    /\ [](InSync =>
            /\ twin.alerts = alerts
            /\ EraseTs(twin.events) = EraseTs(events)
            /\ CallOf(twin.req) = CallOf(req[1]))
    /\ [](~InSync /\ twin.req.pc = "idle" => req[1].pc = "received")
    /\ [][Len(events') > Len(events) =>
            events'[Len(events')].received_at = now]_vars

\* both runs have raised the alert, on events whose ts differ between the runs
C15_Witness ==
    /\ InSync /\ req[1].pc = "idle"
    /\ Len(alerts) >= 1 /\ Len(twin.alerts) >= 1
    /\ \E i \in 1..Len(events) : twin.events[i].ts # events[i].ts

\* C16: count, duplicate check and insert are not atomic: a call that has
\* counted at least 5 failures and seen no recent alert inserts its alert
\* whatever another call has inserted since, so that two concurrent calls for
\* one src_ip both insert, and a state with two active ssh_bruteforce alerts
\* for one src_ip created within the same 2 minutes is reachable.
C16_RaceInsertsBoth ==
    [][ \A c \in Clients :
          (AlertStep(c) /\ req[c].fail_count >= 5 /\ ~req[c].recent_alert) =>
              /\ Len(alerts') = Len(alerts) + 1
              /\ SubSeq(alerts', 1, Len(alerts)) = alerts
              /\ LET a == alerts'[Len(alerts')] IN
                 /\ a.rule = "ssh_bruteforce" /\ a.is_active
                 /\ a.src_ip = events[req[c].row].src_ip
                 /\ a.created_at = now ]_vars

\* both calls have answered, and two active alerts of one src_ip lie within
\* 2 minutes of each other
C16_Witness ==
    /\ \A c \in Clients : req[c].pc = "idle"
    /\ \E i, j \in 1..Len(alerts) :
          /\ i < j
          /\ alerts[i].rule = "ssh_bruteforce" /\ alerts[j].rule = "ssh_bruteforce"
          /\ alerts[i].src_ip = alerts[j].src_ip
          /\ alerts[i].is_active /\ alerts[j].is_active
          /\ alerts[j].created_at - alerts[i].created_at <= 2

\* C17: a failure while the detection rule is evaluated, after the event has
\* been committed, does not fail the ingestion: the call still answers with
\* the success acknowledgement and the new event_id, the event stays stored,
\* and only the alert is skipped.
C17_RuleFailureStillAcknowledged ==
    [][ \A c \in Clients : IngestRuleFails(c) =>
          /\ req'[c].response # None
          /\ req'[c].response[1].code = 200
          /\ "event_id" \in DOMAIN req'[c].response[1]
          /\ req'[c].response[1].event_id = req[c].row
          /\ events' = events
          /\ alerts' = alerts ]_vars

\* C18: duplicate suppression looks at rule, src_ip and created_at, not at
\* is_active: with one call at a time, a new alert for a src_ip is created
\* only when more than 2 minutes have passed since the created_at of every
\* alert of that src_ip, the resolved ones included.
C18_SuppressionIgnoresIsActive ==
    [][ Len(alerts') > Len(alerts) =>
          LET a == alerts'[Len(alerts')] IN
          \A i \in AlertsFor(alerts, a.src_ip) :
              a.created_at - alerts[i].created_at > 2 ]_vars

\* a call has counted at least 5 failures and found a recent alert, and every
\* alert of its src_ip has been resolved
C18_Witness ==
    /\ req[1].pc = "alert"
    /\ req[1].fail_count >= 5 /\ req[1].recent_alert
    /\ AlertsFor(alerts, events[req[1].row].src_ip) # {}
    /\ \A i \in AlertsFor(alerts, events[req[1].row].src_ip) : ~alerts[i].is_active

\* C19: with one call at a time, when a call has at least 5 failed logins of
\* its src_ip in the last 2 minutes and every alert of that src_ip was created
\* before those 2 minutes, it inserts a new active alert and leaves the earlier
\* ones as they are, still active if they were: a state with two active
\* ssh_bruteforce alerts for one src_ip is reachable without concurrency.
C19_SustainedAttackAlertsAgain ==
    [][ \A c \in Clients :
          LET ip == events[req[c].row].src_ip
              since == req[c].window_start
          IN
          ( /\ AlertStep(c)
            /\ Cardinality({ i \in FailedFrom(ip) : events[i].received_at >= since }) >= 5
            /\ \A i \in AlertsFor(alerts, ip) : alerts[i].created_at < since ) =>
              /\ Len(alerts') = Len(alerts) + 1
              /\ SubSeq(alerts', 1, Len(alerts)) = alerts
              /\ alerts'[Len(alerts')].rule = "ssh_bruteforce"
              /\ alerts'[Len(alerts')].src_ip = ip
              /\ alerts'[Len(alerts')].is_active ]_vars

\* the call has answered, and two alerts of one src_ip, more than 2 minutes
\* apart, are both active
C19_Witness ==
    /\ req[1].pc = "idle"
    /\ \E i, j \in 1..Len(alerts) :
          /\ i < j
          /\ alerts[i].rule = "ssh_bruteforce" /\ alerts[j].rule = "ssh_bruteforce"
          /\ alerts[i].src_ip = alerts[j].src_ip
          /\ alerts[i].is_active /\ alerts[j].is_active
          /\ alerts[j].created_at - alerts[i].created_at > 2
====
